---- MODULE Spec2Model ----
(***************************************************************************)
(* GraphData (graph4nlp/pytorch/data/data.py): a graph container with      *)
(* node/edge attributes, feature tables, an edge index map, and the        *)
(* to_batch / from_batch functions.                                        *)
(*                                                                         *)
(* A graph is a record.  A feature tensor is modelled by its rows (one     *)
(* integer per row, 0 being the zero row); a feature-table entry that is   *)
(* None is the record Absent.  Every method is an operator from a graph    *)
(* and its arguments to [g |-> the graph afterwards, err |-> the exception *)
(* raised, or "none"]; an action applies one method call.                  *)
(***************************************************************************)
EXTENDS Integers, Sequences, FiniteSets, TLC

VARIABLES g, graphs, big, ret, last, heap

vars == <<g, graphs, big, ret, last, heap>>

-----------------------------------------------------------------------------
(* Bounds of the model *)

MaxNodes == 2

MaxEdges == 2

MaxList == 3

MaxBatch == 2

-----------------------------------------------------------------------------
(* Python values *)

Absent == [present |-> FALSE, rows |-> <<>>]

Tensor(rows) == [present |-> TRUE, rows |-> rows]

NoneInt == [some |-> FALSE, val |-> 0]

NoneList == [some |-> FALSE, val |-> <<>>]

Some(v) == [some |-> TRUE, val |-> v]

Min(a, b) == IF a < b THEN a ELSE b

Max(a, b) == IF a > b THEN a ELSE b

\* seq[a:b] of Python for 0 <= a, 0 <= b: the bounds are clipped to the length
PySlice(seq, a, b) ==
  LET lo == Min(a, Len(seq))
      hi == Min(b, Len(seq))
  IN  IF hi <= lo THEN <<>> ELSE SubSeq(seq, lo + 1, hi)

RECURSIVE SeqSum(_)
SeqSum(s) == IF s = <<>> THEN 0 ELSE Head(s) + SeqSum(Tail(s))

\* [v] * n
Repeat(v, n) == [j \in 1..n |-> v]

\* The sources and the targets of a list of endpoint pairs
Firsts(ps) == [j \in 1..Len(ps) |-> ps[j][1]]

Seconds(ps) == [j \in 1..Len(ps) |-> ps[j][2]]

\* dict[key] = value
DictSet(d, key, value) ==
  [k \in (DOMAIN d) \cup {key} |-> IF k = key THEN value ELSE d[k]]

EmptyDict == [k \in {} |-> 0]

-----------------------------------------------------------------------------
(* Module-level defaults *)

res_init_node_attr == [node_attr |-> "None"]

res_init_node_features == [k \in {"node_feat", "node_emb"} |-> Absent]

res_init_edge_features == [k \in {"edge_feat", "edge_emb", "edge_weight"} |-> Absent]

res_init_edge_attributes == [edge_attr |-> "None"]

-----------------------------------------------------------------------------
(* utils.py *)

int_to_list(x) == x

check_and_expand(x, y) ==
  IF Len(x) = Len(y) THEN [ok |-> TRUE, x |-> x, y |-> y]
  ELSE IF Len(x) = 1 THEN [ok |-> TRUE, x |-> Repeat(x[1], Len(y)), y |-> y]
  ELSE IF Len(y) = 1 THEN [ok |-> TRUE, x |-> x, y |-> Repeat(y[1], Len(x))]
  ELSE [ok |-> FALSE, x |-> x, y |-> y]

entail_zero_padding(old_tensor, num_rows) ==
  IF ~old_tensor.present THEN Absent
  ELSE Tensor(old_tensor.rows \o Repeat(0, num_rows))

\* slice_to_list(slice(start, stop), max_len), the slice given by its bounds
slice_to_list(sl, max_len) ==
  LET lo == Min(sl.start, max_len)
      hi == Min(sl.stop, max_len)
  IN  [j \in 1..Max(hi - lo, 0) |-> lo + j - 1]

-----------------------------------------------------------------------------
(* GraphData *)

GraphData ==
  [ node_attributes  |-> <<>>,
    node_features    |-> res_init_node_features,
    edge_src         |-> <<>>,
    edge_tgt         |-> <<>>,
    nids_eid_mapping |-> EmptyDict,
    edge_features    |-> res_init_edge_features,
    edge_attributes  |-> <<>>,
    is_batch         |-> FALSE,
    batch            |-> NoneList,
    batch_size       |-> NoneInt,
    batch_num_nodes  |-> NoneList,
    batch_num_edges  |-> NoneList,
    device           |-> "None" ]

Ok(gr) == [g |-> gr, err |-> "none"]

Raise(gr, e) == [g |-> gr, err |-> e]

\* to(device): the graph records the device and every feature tensor is
\* moved to it, its rows being what they were; None entries stay None
to(gr, device) ==
  [gr EXCEPT
     !.device = device,
     !.node_features = [k \in DOMAIN @ |-> IF @[k].present THEN Tensor(@[k].rows) ELSE @[k]],
     !.edge_features = [k \in DOMAIN @ |-> IF @[k].present THEN Tensor(@[k].rows) ELSE @[k]]]

get_node_num(gr) == Len(gr.node_attributes)

get_edge_num(gr) == Len(gr.edge_src)

get_all_edges(gr) == [e \in 1..get_edge_num(gr) |-> <<gr.edge_src[e], gr.edge_tgt[e]>>]

\* PadAll without the padding: the tensors keep their rows
PadAll_Unpadded(features, num) == features

PadAll(features, num) == [k \in DOMAIN features |-> entail_zero_padding(features[k], num)]

\* add_nodes asserting node_num >= 0
add_nodes_AcceptsZero(gr, node_num) ==
  IF ~(node_num >= 0) THEN Raise(gr, "AssertionError")
  ELSE Ok([gr EXCEPT
         !.node_attributes = @ \o Repeat(res_init_node_attr, node_num),
         !.node_features = PadAll(@, node_num)])

add_nodes(gr, node_num) ==
  IF ~(node_num > 0) THEN Raise(gr, "AssertionError")
  ELSE Ok([gr EXCEPT
         !.node_attributes = @ \o Repeat(res_init_node_attr, node_num),
         !.node_features = PadAll(@, node_num)])

\* get_node_attrs(nodes): self._node_attributes[nodes], the indexing of a
\* Python list.  An int gives one record (val holds it alone), counted from
\* the end if negative, or IndexError outside the list; a slice gives the
\* records between its bounds clipped to the list
get_node_attrs(gr, nodes) ==
  IF nodes.kind = "int"
  THEN IF nodes.start >= Len(gr.node_attributes) \/ nodes.start < -Len(gr.node_attributes)
       THEN [val |-> <<>>, err |-> "IndexError"]
       ELSE [val |-> <<gr.node_attributes[(nodes.start % Len(gr.node_attributes)) + 1]>>,
             err |-> "none"]
  ELSE IF nodes.none THEN [val |-> gr.node_attributes, err |-> "none"]
  ELSE [val |-> PySlice(gr.node_attributes, nodes.start, nodes.stop), err |-> "none"]

\* The consistency check of add_edge and add_edges, as written
EndpointCheckFails(gr, src, tgt) ==
  (src < 0 \/ src >= get_node_num(gr)) /\ (tgt < 0 /\ tgt >= get_node_num(gr))

\* add_edge without the duplicate check
add_edge_NoDuplicateCheck(gr, src, tgt) ==
  Ok([gr EXCEPT
     !.nids_eid_mapping = DictSet(@, <<src, tgt>>, get_edge_num(gr)),
     !.edge_src = Append(@, src),
     !.edge_tgt = Append(@, tgt),
     !.edge_attributes = Append(@, res_init_edge_attributes),
     !.edge_features = PadAll(@, 1)])

add_edge(gr, src, tgt) ==
  IF EndpointCheckFails(gr, src, tgt) THEN Raise(gr, "ValueError")
  ELSE LET endpoint_tuple == <<src, tgt>>
           eid == get_edge_num(gr)
       IN  IF endpoint_tuple \in DOMAIN gr.nids_eid_mapping THEN Ok(gr)
           ELSE Ok([gr EXCEPT
                  !.nids_eid_mapping = DictSet(@, endpoint_tuple, eid),
                  !.edge_src = Append(@, src),
                  !.edge_tgt = Append(@, tgt),
                  !.edge_attributes = Append(@, res_init_edge_attributes),
                  !.edge_features = PadAll(@, 1)])

\* The id add_edges registers for the pair at (0-based) position i of its
\* lists, dups being the duplicate positions found before i (the code does not
\* use them)
NewEdgeId(current_num_edges, i, dups) == current_num_edges + i

RECURSIVE DuplicateLoop(_, _, _, _, _, _)

\* DuplicateLoop registering a pair the mapping already holds once more
DuplicateLoop_Overwrite(mapping, dups, src, tgt, i, current_num_edges) ==
  IF i >= Len(src) THEN [mapping |-> mapping, dups |-> dups]
  ELSE LET endpoint_tuple == <<src[i + 1], tgt[i + 1]>>
       IN  IF endpoint_tuple \in DOMAIN mapping
           THEN DuplicateLoop(
                  DictSet(mapping, endpoint_tuple, NewEdgeId(current_num_edges, i, dups)),
                  Append(dups, i), src, tgt, i + 1, current_num_edges)
           ELSE DuplicateLoop(
                  DictSet(mapping, endpoint_tuple, NewEdgeId(current_num_edges, i, dups)),
                  dups, src, tgt, i + 1, current_num_edges)

\* The duplicate-check loop of add_edges from (0-based) position i on:
\* the mapping and the list of duplicate positions it ends with
DuplicateLoop(mapping, dups, src, tgt, i, current_num_edges) ==
  IF i >= Len(src) THEN [mapping |-> mapping, dups |-> dups]
  ELSE LET endpoint_tuple == <<src[i + 1], tgt[i + 1]>>
       IN  IF endpoint_tuple \in DOMAIN mapping
           THEN DuplicateLoop(mapping, Append(dups, i), src, tgt, i + 1, current_num_edges)
           ELSE DuplicateLoop(
                  DictSet(mapping, endpoint_tuple, NewEdgeId(current_num_edges, i, dups)),
                  dups, src, tgt, i + 1, current_num_edges)

\* PopAll without the removal: the duplicates stay in the lists
PopAll_Keep(lst, dups) == lst

\* PopAll without the reversal: the positions are popped first to last
RECURSIVE PopAll_Forward(_, _)
PopAll_Forward(lst, dups) ==
  IF dups = <<>> THEN lst
  ELSE LET index == Head(dups)
       IN  PopAll_Forward(SubSeq(lst, 1, Min(index, Len(lst))) \o SubSeq(lst, index + 2, Len(lst)),
                          Tail(dups))

\* list.pop(index) for each index of dups, taken last to first
RECURSIVE PopAll(_, _)
PopAll(lst, dups) ==
  IF dups = <<>> THEN lst
  ELSE LET index == dups[Len(dups)]
       IN  PopAll(SubSeq(lst, 1, index) \o SubSeq(lst, index + 2, Len(lst)),
                  SubSeq(dups, 1, Len(dups) - 1))

add_edges(gr, src0, tgt0) ==
  LET ex == check_and_expand(int_to_list(src0), int_to_list(tgt0))
  IN  IF ~ex.ok THEN Raise(gr, "ValueError")
      ELSE IF \E i \in 1..Len(ex.x) : EndpointCheckFails(gr, ex.x[i], ex.y[i])
      THEN Raise(gr, "ValueError")
      ELSE LET current_num_edges == Len(gr.edge_attributes)
               loop == DuplicateLoop(gr.nids_eid_mapping, <<>>, ex.x, ex.y, 0, current_num_edges)
               src == PopAll(ex.x, loop.dups)
               tgt == PopAll(ex.y, loop.dups)
               num_edges == Len(src)
           IN  Ok([gr EXCEPT
                  !.nids_eid_mapping = loop.mapping,
                  !.edge_src = @ \o src,
                  !.edge_tgt = @ \o tgt,
                  !.edge_attributes = @ \o Repeat(res_init_edge_attributes, num_edges),
                  !.edge_features = PadAll(@, num_edges)])

RECURSIVE AddEdgeEach(_, _, _)

\* The loop below after one add_edge, r being what it gave: an exception
\* ends the loop
AddEdgeEachRest(r, src, tgt) ==
  IF r.err # "none" THEN r ELSE AddEdgeEach(r.g, src, tgt)

\* for i in range(len(src)): g.add_edge(src[i], tgt[i])
AddEdgeEach(gr, src, tgt) ==
  IF src = <<>> THEN Ok(gr)
  ELSE AddEdgeEachRest(add_edge(gr, Head(src), Head(tgt)), Tail(src), Tail(tgt))

\* edge_ids(src, tgt) for one pair: the id, or EdgeNotFoundException
edge_ids(gr, src, tgt) ==
  IF <<src, tgt>> \in DOMAIN gr.nids_eid_mapping
  THEN [eid |-> gr.nids_eid_mapping[<<src, tgt>>], err |-> "none"]
  ELSE [eid |-> 0, err |-> "EdgeNotFoundException"]

-----------------------------------------------------------------------------
(* Feature writes.  A selector is an int or a slice:                       *)
(*   [kind |-> "int", none |-> FALSE, start |-> i, stop |-> i + 1]         *)
(*   [kind |-> "slice", none |-> TRUE, ...]   for slice(None, None, None)  *)
(*   [kind |-> "slice", none |-> FALSE, start |-> a, stop |-> b]           *)
(* new_data is the sequence of the dict's <<key, value>> items, a value    *)
(* being the rows of a tensor.                                             *)

IntSel(i) == [kind |-> "int", none |-> FALSE, start |-> i, stop |-> i + 1]

FullSlice == [kind |-> "slice", none |-> TRUE, start |-> 0, stop |-> 0]

Slice(a, b) == [kind |-> "slice", none |-> FALSE, start |-> a, stop |-> b]

\* The positions a selector addresses among num elements
Selected(sel, num) ==
  IF sel.kind = "slice" /\ sel.none THEN [j \in 1..num |-> j - 1]
  ELSE slice_to_list(sel, num)

IsNewFeature(features, key) == key \notin DOMAIN features \/ ~features[key].present

\* tensor[sel] = value of torch: the rows afterwards, or the error raised
TensorAssign(rows, sel, value) ==
  LET idx == Selected(sel, Len(rows))
  IN  IF sel.kind = "int" /\ ~(sel.start < Len(rows))
      THEN [rows |-> rows, err |-> "IndexError"]
      ELSE IF Len(value) # Len(idx) /\ Len(value) # 1
      THEN [rows |-> rows, err |-> "RuntimeError"]
      ELSE [rows |-> [j \in 1..Len(rows) |->
                       IF \E p \in 1..Len(idx) : idx[p] = j - 1
                       THEN LET p == CHOOSE q \in 1..Len(idx) : idx[q] = j - 1
                            IN  IF Len(value) = 1 THEN value[1] ELSE value[p]
                       ELSE rows[j]],
            err |-> "none"]

\* self._node_features[key][nodes] = value, w being what the tensor
\* assignment gave: the table afterwards, or the error raised
Assigned(features, key, w) ==
  [f |-> IF w.err = "none" THEN DictSet(features, key, Tensor(w.rows)) ELSE features,
   err |-> w.err]

\* WriteItem without the assertion on the value's first dimension
WriteItem_NoShapeCheck(features, sel, key, value, num) ==
  IF IsNewFeature(features, key) \/ (sel.kind = "slice" /\ sel.none)
  THEN [f |-> DictSet(features, key, Tensor(value)), err |-> "none"]
  ELSE Assigned(features, key, TensorAssign(features[key].rows, sel, value))

\* One item of the modification loop of a feature write on a table of num rows
WriteItem(features, sel, key, value, num) ==
  IF Len(value) # num THEN [f |-> features, err |-> "AssertionError"]
  ELSE IF IsNewFeature(features, key) \/ (sel.kind = "slice" /\ sel.none)
  THEN [f |-> DictSet(features, key, Tensor(value)), err |-> "none"]
  ELSE Assigned(features, key, TensorAssign(features[key].rows, sel, value))

RECURSIVE WriteLoop(_, _, _, _)

\* The modification loop after an item, w being what the item gave: the loop
\* ends at the first exception
WriteRest(w, sel, new_data, num) ==
  IF w.err # "none" THEN w ELSE WriteLoop(w.f, sel, new_data, num)

WriteLoop(features, sel, new_data, num) ==
  IF new_data = <<>> THEN [f |-> features, err |-> "none"]
  ELSE WriteRest(WriteItem(features, sel, Head(new_data)[1], Head(new_data)[2], num),
                 sel, Tail(new_data), num)

\* CoverageFails without the comparison of the slice's length
CoverageFails_AnySlice(features, sel, new_data, num) ==
  \E i \in 1..Len(new_data) :
     /\ IsNewFeature(features, new_data[i][1])
     /\ sel.kind # "slice"

\* The consistency check of a feature write: some new feature does not cover
\* all num elements
CoverageFails(features, sel, new_data, num) ==
  \E i \in 1..Len(new_data) :
     /\ IsNewFeature(features, new_data[i][1])
     /\ (sel.kind # "slice" \/ Len(Selected(sel, num)) # num)

\* The graph after the modification loop of set_node_features gave w
NodeFeaturesWritten(gr, w) == Raise([gr EXCEPT !.node_features = w.f], w.err)

set_node_features(gr, nodes, new_data) ==
  IF CoverageFails(gr.node_features, nodes, new_data, get_node_num(gr))
  THEN Raise(gr, "ValueError")
  ELSE NodeFeaturesWritten(gr, WriteLoop(gr.node_features, nodes, new_data, get_node_num(gr)))

\* The graph after the modification loop of set_edge_feature gave w
EdgeFeaturesWritten(gr, w) == Raise([gr EXCEPT !.edge_features = w.f], w.err)

set_edge_feature(gr, edges, new_data) ==
  IF CoverageFails(gr.edge_features, edges, new_data, get_edge_num(gr))
  THEN Raise(gr, "SizeMismatchException")
  ELSE EdgeFeaturesWritten(gr, WriteLoop(gr.edge_features, edges, new_data, get_edge_num(gr)))

\* g.node_features[key] = value and g.edge_features[key] = value: the views
\* of all nodes (edges) write through the graph's setter
NodeFeatView_setitem(gr, key, value) == set_node_features(gr, FullSlice, <<<<key, value>>>>)

EdgeFeatView_setitem(gr, key, value) == set_edge_feature(gr, FullSlice, <<<<key, value>>>>)

-----------------------------------------------------------------------------
(* to_batch and from_batch *)

RECURSIVE Concat(_)
Concat(seqs) == IF seqs = <<>> THEN <<>> ELSE Head(seqs) \o Concat(Tail(seqs))

\* sum(counts[0:i]) for the (1-based) i-th graph: the counts before it
Cumulative(counts, i) == SeqSum(SubSeq(counts, 1, i - 1))

NodeNumsOf(gs) == [i \in 1..Len(gs) |-> get_node_num(gs[i])]

EdgeNumsOf(gs) == [i \in 1..Len(gs) |-> get_edge_num(gs[i])]

\* The dict of steps 2 and 5: for every feature name some graph knows, the
\* list of that feature's entries, in list order, of the graphs that know it
FeatureLists(tables) ==
  [k \in UNION {DOMAIN tables[i] : i \in 1..Len(tables)} |->
     Concat([i \in 1..Len(tables) |->
               IF k \in DOMAIN tables[i] THEN <<tables[i][k]>> ELSE <<>>])]

\* big_graph.node_features[key] = value, or big_graph.edge_features[key] = value
SetFeature(gr, kind, key, value) ==
  IF kind = "node" THEN NodeFeatView_setitem(gr, key, value)
  ELSE EdgeFeatView_setitem(gr, key, value)

RECURSIVE SetStacked(_, _, _, _)

\* The second loop of steps 2 and 5 after a feature was written, r being what
\* the write gave: the loop ends at the first exception
StackedRest(r, lists, keys, kind) ==
  IF r.err # "none" THEN r ELSE SetStacked(r.g, lists, keys, kind)

\* One feature k of that loop: it is skipped if one of its entries is None,
\* else the entries are concatenated and written through the feature view
SetStackedKey(gr, lists, keys, kind, k) ==
  IF \E j \in 1..Len(lists[k]) : ~lists[k][j].present
  THEN SetStacked(gr, lists, keys \ {k}, kind)
  ELSE StackedRest(
         SetFeature(gr, kind, k, Concat([j \in 1..Len(lists[k]) |-> lists[k][j].rows])),
         lists, keys \ {k}, kind)

\* The second loop of steps 2 and 5 over the features keys
SetStacked(gr, lists, keys, kind) ==
  IF keys = {} THEN Ok(gr)
  ELSE SetStackedKey(gr, lists, keys, kind, CHOOSE x \in keys : TRUE)

\* stack_edge_indices adding a graph's node count before its own edges
EdgeOffset_Inclusive(gs, i) == Cumulative(NodeNumsOf(gs), i + 1)

\* The node offset stack_edge_indices adds to the edges of the i-th graph
EdgeOffset(gs, i) == Cumulative(NodeNumsOf(gs), i)

stack_edge_indices(gs) ==
  Concat([i \in 1..Len(gs) |->
            [e \in 1..get_edge_num(gs[i]) |->
               <<gs[i].edge_src[e] + EdgeOffset(gs, i), gs[i].edge_tgt[e] + EdgeOffset(gs, i)>>]])

\* Step 7 numbering the graphs of the batch from 1
BatchInfo_OneBased(gr, gs) ==
  [gr EXCEPT
     !.batch_size = Some(Len(gs)),
     !.batch = Some(Concat([i \in 1..Len(gs) |-> Repeat(i, get_node_num(gs[i]))])),
     !.batch_num_nodes = Some(NodeNumsOf(gs)),
     !.batch_num_edges = Some(EdgeNumsOf(gs))]

\* Step 7: the batch information
BatchInfo(gr, gs) ==
  [gr EXCEPT
     !.batch_size = Some(Len(gs)),
     !.batch = Some(Concat([i \in 1..Len(gs) |-> Repeat(i - 1, get_node_num(gs[i]))])),
     !.batch_num_nodes = Some(NodeNumsOf(gs)),
     !.batch_num_edges = Some(EdgeNumsOf(gs))]

\* Step 6, step5 being what step 5 gave: the edge attribute records of the
\* graphs are written to the batch's records 0, 1, ... (IndexError past the
\* last record); then step 7
Step6(step5, gs, edge_attrs) ==
  IF step5.err # "none" THEN Raise(GraphData, step5.err)
  ELSE IF Len(edge_attrs) > Len(step5.g.edge_attributes) THEN Raise(GraphData, "IndexError")
  ELSE Ok(BatchInfo([step5.g EXCEPT
                       !.edge_attributes =
                          edge_attrs \o SubSeq(@, Len(edge_attrs) + 1, Len(@))],
                    gs))

\* Step 5, step4 being what big_graph.add_edges of step 4 gave
Step5(step4, gs) ==
  IF step4.err # "none" THEN Raise(GraphData, step4.err)
  ELSE Step6(SetStacked(step4.g,
                        FeatureLists([i \in 1..Len(gs) |-> gs[i].edge_features]),
                        DOMAIN FeatureLists([i \in 1..Len(gs) |-> gs[i].edge_features]),
                        "edge"),
             gs, Concat([i \in 1..Len(gs) |-> gs[i].edge_attributes]))

\* Steps 3 and 4 with the node attribute records of the last graph put first
Step3_LastGraphFirst(step2, gs) ==
  IF step2.err # "none" THEN Raise(GraphData, step2.err)
  ELSE Step5(add_edges([step2.g EXCEPT
                          !.node_attributes =
                             Concat([i \in 1..Len(gs) |->
                                       gs[Len(gs) + 1 - i].node_attributes])],
                       Firsts(stack_edge_indices(gs)), Seconds(stack_edge_indices(gs))),
             gs)

\* Steps 3 and 4, step2 being what step 2 gave: the node attribute records
\* are copied, then the edges of stack_edge_indices are added
Step3(step2, gs) ==
  IF step2.err # "none" THEN Raise(GraphData, step2.err)
  ELSE Step5(add_edges([step2.g EXCEPT
                          !.node_attributes =
                             Concat([i \in 1..Len(gs) |-> gs[i].node_attributes])],
                       Firsts(stack_edge_indices(gs)), Seconds(stack_edge_indices(gs))),
             gs)

\* Step 2, step1 being what big_graph.add_nodes of step 1 gave
Step2(step1, gs) ==
  IF step1.err # "none" THEN Raise(GraphData, step1.err)
  ELSE Step3(SetStacked(step1.g,
                        FeatureLists([i \in 1..Len(gs) |-> gs[i].node_features]),
                        DOMAIN FeatureLists([i \in 1..Len(gs) |-> gs[i].node_features]),
                        "node"),
             gs)

\* to_batch returning an empty batch for an empty list
to_batch_EmptyBatch(gs) ==
  IF ~(Len(gs) > 0) THEN Ok(BatchInfo([GraphData EXCEPT !.is_batch = TRUE], gs))
  ELSE Step2(add_nodes([GraphData EXCEPT !.is_batch = TRUE, !.device = gs[1].device],
                       SeqSum(NodeNumsOf(gs))),
             gs)

to_batch(gs) ==
  IF ~(Len(gs) > 0) THEN Raise(GraphData, "AssertionError")
  ELSE Step2(add_nodes([GraphData EXCEPT !.is_batch = TRUE, !.device = gs[1].device],
                       SeqSum(NodeNumsOf(gs))),
             gs)

\* g.add_edges(src, tgt) of from_batch's first loop, n being what g.add_nodes
\* gave: the edges are taken back by cum_n_nodes
AddRebased(n, edges, cum_n_nodes) ==
  IF n.err # "none" THEN n
  ELSE add_edges(n.g, [e \in 1..Len(edges) |-> edges[e][1] - cum_n_nodes],
                      [e \in 1..Len(edges) |-> edges[e][2] - cum_n_nodes])

\* The first loop of from_batch without the subtraction of cum_n_nodes
Construct_NoRebase(batch, i) ==
  AddRebased(add_nodes([GraphData EXCEPT !.device = batch.device], batch.batch_num_nodes.val[i]),
             PySlice(get_all_edges(batch),
                     Cumulative(batch.batch_num_edges.val, i),
                     Cumulative(batch.batch_num_edges.val, i) + batch.batch_num_edges.val[i]),
             0)

\* The first loop of from_batch with the node and edge counts exchanged
Construct_CountsExchanged(batch, i) ==
  AddRebased(add_nodes([GraphData EXCEPT !.device = batch.device], batch.batch_num_edges.val[i]),
             PySlice(get_all_edges(batch),
                     Cumulative(batch.batch_num_nodes.val, i),
                     Cumulative(batch.batch_num_nodes.val, i) + batch.batch_num_nodes.val[i]),
             Cumulative(batch.batch_num_nodes.val, i))

\* The first loop of from_batch for the i-th graph: its nodes and edges
Construct(batch, i) ==
  AddRebased(add_nodes([GraphData EXCEPT !.device = batch.device], batch.batch_num_nodes.val[i]),
             PySlice(get_all_edges(batch),
                     Cumulative(batch.batch_num_edges.val, i),
                     Cumulative(batch.batch_num_edges.val, i) + batch.batch_num_edges.val[i]),
             Cumulative(batch.batch_num_nodes.val, i))

RECURSIVE SetSliced(_, _, _, _, _, _)

\* A feature loop of from_batch after a feature was written, r being what the
\* write gave
SlicedRest(r, features, keys, lo, hi, kind) ==
  IF r.err # "none" THEN r ELSE SetSliced(r.g, features, keys, lo, hi, kind)

\* One feature k of a feature loop of from_batch: unless it is None, its rows
\* lo to hi are written to the graph through the feature view
SetSlicedKey(gr, features, keys, lo, hi, kind, k) ==
  IF ~features[k].present THEN SetSliced(gr, features, keys \ {k}, lo, hi, kind)
  ELSE SlicedRest(SetFeature(gr, kind, k, PySlice(features[k].rows, lo, hi)),
                  features, keys \ {k}, lo, hi, kind)

\* The feature loops of from_batch for one graph gr and the features keys
SetSliced(gr, features, keys, lo, hi, kind) ==
  IF keys = {} THEN Ok(gr)
  ELSE SetSlicedKey(gr, features, keys, lo, hi, kind, CHOOSE x \in keys : TRUE)

\* The attribute loop of from_batch for the i-th graph gr
CopyAttributes(batch, gr, i) ==
  LET num_nodes == batch.batch_num_nodes.val
      num_edges == batch.batch_num_edges.val
      cum_n_nodes == Cumulative(num_nodes, i)
      cum_n_edges == Cumulative(num_edges, i)
  IN  IF \/ num_nodes[i] > Len(gr.node_attributes)
         \/ cum_n_nodes + num_nodes[i] > Len(batch.node_attributes)
         \/ num_edges[i] > Len(gr.edge_attributes)
         \/ cum_n_edges + num_edges[i] > Len(batch.edge_attributes)
      THEN Raise(gr, "IndexError")
      ELSE Ok([gr EXCEPT
             !.node_attributes =
                [j \in 1..Len(@) |->
                   IF j <= num_nodes[i] THEN batch.node_attributes[cum_n_nodes + j] ELSE @[j]],
             !.edge_attributes =
                [j \in 1..Len(@) |->
                   IF j <= num_edges[i] THEN batch.edge_attributes[cum_n_edges + j] ELSE @[j]]])

\* The exception a loop over the graphs ends with: that of its first graph
\* that raises one
FirstError(results) ==
  IF \E i \in 1..Len(results) : results[i].err # "none"
  THEN results[CHOOSE i \in 1..Len(results) :
                 /\ results[i].err # "none"
                 /\ \A j \in 1..(i - 1) : results[j].err = "none"].err
  ELSE "none"

\* What from_batch returns once a loop has given results for every graph: the
\* loop's exception, or the graphs
Returned(results) ==
  IF FirstError(results) # "none" THEN [val |-> <<>>, err |-> FirstError(results)]
  ELSE [val |-> [i \in 1..Len(results) |-> results[i].g], err |-> "none"]

\* The attribute loop, efeat being what the edge feature loop gave
FromBatchAttributes(batch, efeat) ==
  IF FirstError(efeat) # "none" THEN Returned(efeat)
  ELSE Returned([i \in 1..Len(efeat) |-> CopyAttributes(batch, efeat[i].g, i)])

\* The edge feature loop, nfeat being what the node feature loop gave
FromBatchEdgeFeatures(batch, nfeat) ==
  IF FirstError(nfeat) # "none" THEN Returned(nfeat)
  ELSE FromBatchAttributes(
         batch,
         [i \in 1..Len(nfeat) |->
            SetSliced(nfeat[i].g, batch.edge_features, DOMAIN batch.edge_features,
                      Cumulative(batch.batch_num_edges.val, i),
                      Cumulative(batch.batch_num_edges.val, i) + batch.batch_num_edges.val[i],
                      "edge")])

\* The node feature loop, built being what the construction loop gave
FromBatchNodeFeatures(batch, built) ==
  IF FirstError(built) # "none" THEN Returned(built)
  ELSE FromBatchEdgeFeatures(
         batch,
         [i \in 1..Len(built) |->
            SetSliced(built[i].g, batch.node_features, DOMAIN batch.node_features,
                      Cumulative(batch.batch_num_nodes.val, i),
                      Cumulative(batch.batch_num_nodes.val, i) + batch.batch_num_nodes.val[i],
                      "node")])

\* from_batch taking a missing batch_size for 0
from_batch_EmptyForPlain(batch) ==
  IF ~batch.batch_size.some THEN [val |-> <<>>, err |-> "none"]
  ELSE FromBatchNodeFeatures(batch, [i \in 1..batch.batch_size.val |-> Construct(batch, i)])

from_batch(batch) ==
  IF ~batch.batch_size.some THEN [val |-> <<>>, err |-> "TypeError"]
  ELSE FromBatchNodeFeatures(batch, [i \in 1..batch.batch_size.val |-> Construct(batch, i)])

-----------------------------------------------------------------------------
(* The batch views of the features: a (B, N, D) tensor is the sequence of  *)
(* its B blocks, a block the sequence of its N rows                        *)

\* torch.split(tensor, split_size_or_sections=sections): the chunks, or
\* RuntimeError unless the sections sum to the tensor's rows
TorchSplit(rows, sections) ==
  IF SeqSum(sections) # Len(rows) THEN [val |-> <<>>, err |-> "RuntimeError"]
  ELSE [val |-> [i \in 1..Len(sections) |->
                   PySlice(rows, Cumulative(sections, i), Cumulative(sections, i) + sections[i])],
        err |-> "none"]

\* pad_sequence(chunks, batch_first=True): every chunk is extended by zero
\* rows to the length of the longest
pad_sequence(chunks) ==
  [i \in 1..Len(chunks) |->
     chunks[i] \o Repeat(0, Len(chunks[CHOOSE m \in 1..Len(chunks) :
                                         \A j \in 1..Len(chunks) :
                                            Len(chunks[j]) <= Len(chunks[m])])
                            - Len(chunks[i]))]

\* split_node_features and split_edge_features on a table of features and
\* the per-graph counts: the chunks of every feature that is not None
split_features(gr, features, sections) ==
  IF ~gr.is_batch THEN [val |-> EmptyDict, err |-> "Exception"]
  ELSE IF \E k \in DOMAIN features :
             features[k].present /\ TorchSplit(features[k].rows, sections.val).err # "none"
  THEN [val |-> EmptyDict, err |-> "RuntimeError"]
  ELSE [val |-> [k \in {x \in DOMAIN features : features[x].present} |->
                   TorchSplit(features[k].rows, sections.val).val],
        err |-> "none"]

\* _get_batch_node_features(item) and _get_batch_edge_features(item) once
\* the feature is known to exist, sp being what the split property gave
PaddedItem(sp, item) ==
  IF sp.err # "none" THEN [val |-> <<>>, err |-> sp.err]
  ELSE [val |-> pad_sequence(sp.val[item]), err |-> "none"]

get_batch_node_features(gr, item) ==
  IF ~gr.is_batch THEN [val |-> <<>>, err |-> "Exception"]
  ELSE IF item \notin DOMAIN gr.node_features \/ ~gr.node_features[item].present
  THEN [val |-> <<>>, err |-> "Exception"]
  ELSE PaddedItem(split_features(gr, gr.node_features, gr.batch_num_nodes), item)

get_batch_edge_features(gr, item) ==
  IF ~gr.is_batch THEN [val |-> <<>>, err |-> "Exception"]
  ELSE IF item \notin DOMAIN gr.edge_features \/ ~gr.edge_features[item].present
  THEN [val |-> <<>>, err |-> "Exception"]
  ELSE PaddedItem(split_features(gr, gr.edge_features, gr.batch_num_edges), item)

\* Trimmed taking the last counts[i] rows of block i
Trimmed_FromEnd(value, counts) ==
  [i \in 1..Len(counts) |-> PySlice(value[i], Len(value[i]) - counts[i], Len(value[i]))]

\* [value[i, :counts[i]] for i in range(len(counts))]
Trimmed(value, counts) ==
  [i \in 1..Len(counts) |-> PySlice(value[i], 0, counts[i])]

\* _set_batch_node_features(key, value); value[i] is an IndexError when the
\* tensor has fewer blocks than the batch has graphs
set_batch_node_features(gr, key, value) ==
  IF ~gr.batch_num_nodes.some THEN Raise(gr, "TypeError")
  ELSE IF Len(gr.batch_num_nodes.val) > Len(value) THEN Raise(gr, "IndexError")
  ELSE set_node_features(gr, FullSlice,
                         <<<<key, Concat(Trimmed(value, gr.batch_num_nodes.val))>>>>)

set_batch_edge_features(gr, key, value) ==
  IF ~gr.batch_num_edges.some THEN Raise(gr, "TypeError")
  ELSE IF Len(gr.batch_num_edges.val) > Len(value) THEN Raise(gr, "IndexError")
  ELSE set_edge_feature(gr, FullSlice,
                        <<<<key, Concat(Trimmed(value, gr.batch_num_edges.val))>>>>)

\* g.batch_node_features[key] = g.batch_node_features[key], v being what the
\* read gave: nothing is written if the read raised
NodeViewWrittenBack(gr, key, v) ==
  IF v.err # "none" THEN Raise(gr, v.err) ELSE set_batch_node_features(gr, key, v.val)

EdgeViewWrittenBack(gr, key, v) ==
  IF v.err # "none" THEN Raise(gr, v.err) ELSE set_batch_edge_features(gr, key, v.val)

-----------------------------------------------------------------------------
(* Copy construction: GraphData(src) runs from_graphdata on a new graph    *)

\* dict[k] = v for every item of other
DictUpdate(d, other) ==
  [k \in (DOMAIN d) \cup (DOMAIN other) |-> IF k \in DOMAIN other THEN other[k] ELSE d[k]]

copy_batch_info(gr, batch) ==
  [gr EXCEPT
     !.is_batch = TRUE,
     !.batch = batch.batch,
     !.device = batch.device,
     !.batch_size = batch.batch_size,
     !.batch_num_edges = batch.batch_num_edges,
     !.batch_num_nodes = batch.batch_num_nodes]

\* CopyFields appending the source's attribute records to the lists
CopyFields_Extend(e, src) ==
  IF e.err # "none" THEN e
  ELSE Ok([e.g EXCEPT
             !.node_features = DictUpdate(@, src.node_features),
             !.edge_features = DictUpdate(@, src.edge_features),
             !.device = src.device,
             !.node_attributes = @ \o src.node_attributes,
             !.edge_attributes = @ \o src.edge_attributes])

\* from_graphdata after its add_edges, e being what add_edges gave: the
\* feature tensors are assigned by name, the attribute lists are replaced by
\* deep copies of the source's, the batch information is copied if the
\* source is a batch, and the copy is moved to the source's device
CopyFields(e, src) ==
  IF e.err # "none" THEN e
  ELSE Ok(to(IF src.is_batch
             THEN copy_batch_info([e.g EXCEPT
                                     !.node_features = DictUpdate(@, src.node_features),
                                     !.edge_features = DictUpdate(@, src.edge_features),
                                     !.node_attributes = src.node_attributes,
                                     !.edge_attributes = src.edge_attributes],
                                  src)
             ELSE [e.g EXCEPT
                     !.node_features = DictUpdate(@, src.node_features),
                     !.edge_features = DictUpdate(@, src.edge_features),
                     !.node_attributes = src.node_attributes,
                     !.edge_attributes = src.edge_attributes],
             src.device))

\* from_graphdata after its add_nodes, n being what add_nodes gave
CopyEdges(n, src) ==
  IF n.err # "none" THEN n
  ELSE CopyFields(add_edges(n.g, src.edge_src, src.edge_tgt), src)

from_graphdata(self, src) == CopyEdges(add_nodes(self, get_node_num(src)), src)

-----
(* State.  g is a graph the caller builds through the public methods;      *)
(* graphs is the list handed to to_batch, big what to_batch returned, ret  *)
(* what from_batch returned.  last records the call that has just          *)
(* returned: its arguments, the exception it raised and the graph it was   *)
(* called on as it was before the call.  Forget drops that record before   *)
(* the next call, so that the history of calls is not part of the state.   *)
(* heap holds the attribute dicts of the graphs whose attribute lists are  *)
(* kept as lists of references: an address is an index into heap.          *)

NoGraph == [some |-> FALSE, val |-> GraphData]

NoCall == [op |-> "none", src |-> <<>>, tgt |-> <<>>, num |-> 0, sel |-> FullSlice,
           data |-> <<>>, err |-> "none", pre |-> GraphData]

Call(op, src, tgt, num, sel, data, err, pre) ==
  [op |-> op, src |-> src, tgt |-> tgt, num |-> num, sel |-> sel,
   data |-> data, err |-> err, pre |-> pre]

\* Inputs.  Endpoint pairs: in range once the graph has two nodes (<<0, 0>>,
\* <<0, 1>>), a negative target, a negative source; with fewer nodes 1 and 0
\* are too large as well.
EdgePairs == {<<0, 0>>, <<0, 1>>, <<1, -1>>, <<-1, 1>>}

NodeNums == -1..MaxNodes

\* Pairs of the lists given to add_edges
ListPairs == {<<0, 0>>, <<0, 1>>, <<1, -1>>}

PairLists == UNION {[1..m -> ListPairs] : m \in 0..MaxList}

\* add_edges arguments that are not two lists of equal length: one endpoint
\* against a list, and lists whose lengths do not match
UnequalArgs ==
  {<<<<0>>, <<0, 1>>>>, <<<<0, 1>>, <<1>>>>, <<<<0>>, <<1, 1>>>>,
   <<<<0, 0>>, <<0, 1, 1>>>>, <<<<>>, <<0, 1>>>>}

Iota(n) == [j \in 1..n |-> j]

Init ==
  /\ g = GraphData
  /\ graphs = <<>>
  /\ big = NoGraph
  /\ ret = NoneList
  /\ last = NoCall
  /\ heap = <<>>

Forget ==
  /\ last # NoCall
  /\ last' = NoCall
  /\ UNCHANGED <<heap, g, graphs, big, ret>>

AddNodes(node_num) ==
  /\ last = NoCall
  /\ \E r \in {add_nodes(g, node_num)} :
      /\ get_node_num(r.g) <= MaxNodes
      /\ g' = r.g
      /\ last' = Call("add_nodes", <<>>, <<>>, node_num, FullSlice, <<>>, r.err, g)
      /\ UNCHANGED <<heap, graphs, big, ret>>

AddEdge(src, tgt) ==
  /\ last = NoCall
  /\ \E r \in {add_edge(g, src, tgt)} :
      /\ get_edge_num(r.g) <= MaxEdges
      /\ g' = r.g
      /\ last' = Call("add_edge", <<src>>, <<tgt>>, 0, FullSlice, <<>>, r.err, g)
      /\ UNCHANGED <<heap, graphs, big, ret>>

AddEdges(src, tgt) ==
  /\ last = NoCall
  /\ \E r \in {add_edges(g, src, tgt)} :
      /\ get_edge_num(r.g) <= MaxEdges
      /\ g' = r.g
      /\ last' = Call("add_edges", src, tgt, 0, FullSlice, <<>>, r.err, g)
      /\ UNCHANGED <<heap, graphs, big, ret>>

SetNodeFeatures(nodes, new_data) ==
  /\ last = NoCall
  /\ \E r \in {set_node_features(g, nodes, new_data)} :
      /\ g' = r.g
      /\ last' = Call("set_node_features", <<>>, <<>>, 0, nodes, new_data, r.err, g)
      /\ UNCHANGED <<heap, graphs, big, ret>>

SetEdgeFeature(edges, new_data) ==
  /\ last = NoCall
  /\ \E r \in {set_edge_feature(g, edges, new_data)} :
      /\ g' = r.g
      /\ last' = Call("set_edge_feature", <<>>, <<>>, 0, edges, new_data, r.err, g)
      /\ UNCHANGED <<heap, graphs, big, ret>>

Next ==
  \/ Forget
  \/ \E node_num \in NodeNums : AddNodes(node_num)
  \/ \E p \in EdgePairs : AddEdge(p[1], p[2])
  \/ \E ps \in PairLists : AddEdges(Firsts(ps), Seconds(ps))
  \/ \E a \in UnequalArgs : AddEdges(a[1], a[2])
  \/ SetEdgeFeature(FullSlice, <<<<"edge_weight", Iota(get_edge_num(g))>>>>)

Spec == Init /\ [][Next]_vars

-----------------------------------------------------------------------------
(* Batching: the caller builds the graphs of a list, hands the list to     *)
(* to_batch, then either goes on to use the returned graph through its     *)
(* public methods or splits it again with from_batch.                      *)

MaxBatchNodes == 3

MaxBatchEdges == 2

MaxFeatures == 2

MaxAttrs == 1

MaxExtra == 1

\* Inputs of the batching runs
BatchPairs == {<<0, 0>>, <<0, 1>>}

NodeFeatureNames == {"x"}

EdgeFeatureNames == {"edge_weight"}

\* The rows written as a feature of the i-th graph: no two graphs share a row
Rows(i, n) == [j \in 1..n |-> 10 * i + j]

PresentCount(features) == Cardinality({k \in DOMAIN features : features[k].present})

FeatureCount(gs) ==
  SeqSum([i \in 1..Len(gs) |->
            PresentCount(gs[i].node_features) + PresentCount(gs[i].edge_features)])

AttrCount(gs) ==
  SeqSum([i \in 1..Len(gs) |->
            Cardinality({j \in 1..get_node_num(gs[i]) :
                           gs[i].node_attributes[j] # res_init_node_attr})
            + Cardinality({j \in 1..get_edge_num(gs[i]) :
                             gs[i].edge_attributes[j] # res_init_edge_attributes})])

Building == last = NoCall /\ ~big.some

\* g = GraphData(); g.add_nodes(n) (no add_nodes for n = 0); graphs.append(g)
NewGraph(n) ==
  /\ Building
  /\ Len(graphs) < MaxBatch
  /\ SeqSum(NodeNumsOf(graphs)) + n <= MaxBatchNodes
  /\ graphs' = Append(graphs, IF n = 0 THEN GraphData ELSE add_nodes(GraphData, n).g)
  /\ UNCHANGED <<heap, g, big, ret, last>>

BuildEdge(i, src, tgt) ==
  /\ Building
  /\ SeqSum(EdgeNumsOf(graphs)) < MaxBatchEdges
  /\ graphs' = [graphs EXCEPT ![i] = add_edge(@, src, tgt).g]
  /\ UNCHANGED <<heap, g, big, ret, last>>

BuildNodeFeature(i, key) ==
  /\ Building
  /\ FeatureCount(graphs) < MaxFeatures
  /\ graphs' = [graphs EXCEPT
                  ![i] = NodeFeatView_setitem(@, key, Rows(i, get_node_num(@))).g]
  /\ UNCHANGED <<heap, g, big, ret, last>>

BuildEdgeFeature(i, key) ==
  /\ Building
  /\ FeatureCount(graphs) < MaxFeatures
  /\ graphs' = [graphs EXCEPT
                  ![i] = EdgeFeatView_setitem(@, key, Rows(i, get_edge_num(@))).g]
  /\ UNCHANGED <<heap, g, big, ret, last>>

\* graphs[i].node_attributes[j]['node_attr'] = value
BuildNodeAttr(i, j, value) ==
  /\ Building
  /\ AttrCount(graphs) < MaxAttrs
  /\ graphs' = [graphs EXCEPT ![i].node_attributes[j] = [node_attr |-> value]]
  /\ UNCHANGED <<heap, g, big, ret, last>>

\* graphs[i].edge_attributes[j]['edge_attr'] = value
BuildEdgeAttr(i, j, value) ==
  /\ Building
  /\ AttrCount(graphs) < MaxAttrs
  /\ graphs' = [graphs EXCEPT ![i].edge_attributes[j] = [edge_attr |-> value]]
  /\ UNCHANGED <<heap, g, big, ret, last>>

\* to_batch collecting the batch in the first graph of the list
ToBatch_IntoFirst ==
  /\ Building
  /\ \E r \in {to_batch(graphs)} :
      /\ big' = IF r.err = "none" THEN Some(r.g) ELSE NoGraph
      /\ graphs' = IF r.err = "none" THEN [graphs EXCEPT ![1] = r.g] ELSE graphs
      /\ last' = Call("to_batch", <<>>, <<>>, 0, FullSlice, <<>>, r.err, GraphData)
      /\ UNCHANGED <<heap, g, ret>>

ToBatch ==
  /\ Building
  /\ \E r \in {to_batch(graphs)} :
      /\ big' = IF r.err = "none" THEN Some(r.g) ELSE NoGraph
      /\ last' = Call("to_batch", <<>>, <<>>, 0, FullSlice, <<>>, r.err, GraphData)
      /\ UNCHANGED <<heap, g, graphs, ret>>

Batched == last = NoCall /\ big.some /\ ~ret.some

\* Nodes and edges added to the batch graph since to_batch returned it
Extra(gr) ==
  (get_node_num(gr) - SeqSum(gr.batch_num_nodes.val))
  + (get_edge_num(gr) - SeqSum(gr.batch_num_edges.val))

BatchAddNodes(node_num) ==
  /\ Batched
  /\ \E r \in {add_nodes(big.val, node_num)} :
      /\ Extra(r.g) <= MaxExtra
      /\ big' = Some(r.g)
      /\ last' = Call("add_nodes", <<>>, <<>>, node_num, FullSlice, <<>>, r.err, big.val)
      /\ UNCHANGED <<heap, g, graphs, ret>>

BatchAddEdge(src, tgt) ==
  /\ Batched
  /\ \E r \in {add_edge(big.val, src, tgt)} :
      /\ Extra(r.g) <= MaxExtra
      /\ big' = Some(r.g)
      /\ last' = Call("add_edge", <<src>>, <<tgt>>, 0, FullSlice, <<>>, r.err, big.val)
      /\ UNCHANGED <<heap, g, graphs, ret>>

BatchAddEdges(src, tgt) ==
  /\ Batched
  /\ \E r \in {add_edges(big.val, src, tgt)} :
      /\ Extra(r.g) <= MaxExtra
      /\ big' = Some(r.g)
      /\ last' = Call("add_edges", src, tgt, 0, FullSlice, <<>>, r.err, big.val)
      /\ UNCHANGED <<heap, g, graphs, ret>>

\* big.batch_node_features[key] = big.batch_node_features[key]; the record
\* of the call holds the padded tensor that was read
NodeViewRoundTrip(key) ==
  /\ Batched
  /\ \E v \in {get_batch_node_features(big.val, key)} :
       \E r \in {NodeViewWrittenBack(big.val, key, v)} :
          /\ big' = Some(r.g)
          /\ last' = Call("batch_node_features", <<>>, <<>>, 0, FullSlice,
                          <<<<key, v.val>>>>, r.err, big.val)
  /\ UNCHANGED <<heap, g, graphs, ret>>

\* big.batch_edge_features[key] = big.batch_edge_features[key]
EdgeViewRoundTrip(key) ==
  /\ Batched
  /\ \E v \in {get_batch_edge_features(big.val, key)} :
       \E r \in {EdgeViewWrittenBack(big.val, key, v)} :
          /\ big' = Some(r.g)
          /\ last' = Call("batch_edge_features", <<>>, <<>>, 0, FullSlice,
                          <<<<key, v.val>>>>, r.err, big.val)
  /\ UNCHANGED <<heap, g, graphs, ret>>

FromBatch ==
  /\ Batched
  /\ \E r \in {from_batch(big.val)} :
      /\ ret' = IF r.err = "none" THEN Some(r.val) ELSE NoneList
      /\ last' = Call("from_batch", <<>>, <<>>, 0, FullSlice, <<>>, r.err, big.val)
      /\ UNCHANGED <<heap, g, graphs, big>>

NextBatch ==
  \/ Forget
  \/ \E n \in 0..MaxNodes : NewGraph(n)
  \/ \E i \in 1..Len(graphs) : \E p \in BatchPairs : BuildEdge(i, p[1], p[2])
  \/ \E i \in 1..Len(graphs) : \E key \in NodeFeatureNames : BuildNodeFeature(i, key)
  \/ \E i \in 1..Len(graphs) : \E key \in EdgeFeatureNames : BuildEdgeFeature(i, key)
  \/ \E i \in 1..Len(graphs) : \E j \in 1..get_node_num(graphs[i]) : BuildNodeAttr(i, j, "a")
  \/ \E i \in 1..Len(graphs) : \E j \in 1..get_edge_num(graphs[i]) : BuildEdgeAttr(i, j, "b")
  \/ ToBatch
  \/ \E node_num \in {1} : BatchAddNodes(node_num)
  \/ BatchAddEdge(0, 0)
  \/ BatchAddEdges(<<0, 0>>, <<0, 1>>)
  \/ FromBatch
  \/ \E key \in NodeFeatureNames : NodeViewRoundTrip(key)
  \/ \E key \in EdgeFeatureNames : EdgeViewRoundTrip(key)

SpecBatch == Init /\ [][NextBatch]_vars

-----------------------------------------------------------------------------
(* Features, copies and batches of one graph: the caller grows g, writes   *)
(* its features through set_node_features and set_edge_feature, copies it  *)
(* with GraphData(g), and batches it with itself and splits the batch.     *)
(* big holds the copy or the batch, ret the graphs from_batch returned;    *)
(* Release drops them together with the record of the call.                *)

\* Inputs of the feature writes: the selectors, and the dicts of new_data for
\* arrays of num rows (node_feat is one of the default features, x is not)
Selectors == {FullSlice, IntSel(0), Slice(0, 1), Slice(0, MaxNodes)}

NodeWrites(num) ==
  {<<<<"node_feat", Repeat(7, num)>>>>,
   <<<<"x", Repeat(8, num)>>>>,
   <<<<"node_feat", Repeat(7, num)>>, <<"x", Repeat(8, num)>>>>}

\* The lists given to add_edges: a pair twice, and two pairs
FeatLists == {<<<<0, 1>>, <<0, 1>>>>, <<<<0, 0>>, <<0, 1>>>>}

Release ==
  /\ last # NoCall
  /\ last' = NoCall
  /\ graphs' = <<>>
  /\ big' = NoGraph
  /\ ret' = NoneList
  /\ UNCHANGED <<heap, g>>

\* The device tags given to to
Devices == {"cuda"}

\* g.to(device)
To(device) ==
  /\ last = NoCall
  /\ g' = to(g, device)
  /\ last' = Call("to", <<>>, <<>>, 0, FullSlice, <<>>, "none", g)
  /\ UNCHANGED <<heap, graphs, big, ret>>

\* The selectors given to get_node_attrs: a node, an int that is no node,
\* and slices that end within or past the largest graph
ReadSelectors ==
  {IntSel(0), IntSel(MaxNodes), Slice(0, 1), Slice(0, MaxNodes + 1),
   Slice(MaxNodes, MaxNodes + 2)}

\* g.get_node_attrs(nodes); the record of the call holds what was returned
\* as its data
GetNodeAttrs(nodes) ==
  /\ last = NoCall
  /\ \E r \in {get_node_attrs(g, nodes)} :
      last' = Call("get_node_attrs", <<>>, <<>>, 0, nodes, r.val, r.err, g)
  /\ UNCHANGED <<heap, g, graphs, big, ret>>

\* big = GraphData(src)
Copy(src) ==
  \E r \in {from_graphdata(GraphData, src)} :
     /\ big' = IF r.err = "none" THEN Some(r.g) ELSE NoGraph
     /\ last' = Call("from_graphdata", <<>>, <<>>, 0, FullSlice, <<>>, r.err, src)
     /\ UNCHANGED <<heap, g, graphs, ret>>

CopyGraph == last = NoCall /\ Copy(g)

\* graphs = [g, g]; big = to_batch(graphs)
Pack ==
  /\ last = NoCall
  /\ \E r \in {to_batch(<<g, g>>)} :
      /\ graphs' = <<g, g>>
      /\ big' = IF r.err = "none" THEN Some(r.g) ELSE NoGraph
      /\ last' = Call("to_batch", <<>>, <<>>, 0, FullSlice, <<>>, r.err, GraphData)
      /\ UNCHANGED <<heap, g, ret>>

\* ret = from_batch(batch)
Unpack(batch) ==
  \E r \in {from_batch(batch)} :
     /\ ret' = IF r.err = "none" THEN Some(r.val) ELSE NoneList
     /\ last' = Call("from_batch", <<>>, <<>>, 0, FullSlice, <<>>, r.err, batch)
     /\ UNCHANGED <<heap, g, graphs, big>>

\* from_batch on the batch to_batch has just returned
UnpackBatch == last.op = "to_batch" /\ big.some /\ Unpack(big.val)

\* from_batch on g, which is no batch
UnpackGraph == last = NoCall /\ Unpack(g)

\* GraphData(big) on the batch to_batch has just returned
CopyBatch == last.op = "to_batch" /\ big.some /\ Copy(big.val)

NextFeat ==
  \/ Release
  \/ \E node_num \in NodeNums : AddNodes(node_num)
  \/ \E p \in BatchPairs : AddEdge(p[1], p[2])
  \/ \E ps \in FeatLists : AddEdges(Firsts(ps), Seconds(ps))
  \/ \E nodes \in Selectors : \E num \in 1..MaxNodes : \E new_data \in NodeWrites(num) :
        SetNodeFeatures(nodes, new_data)
  \/ \E edges \in {FullSlice, IntSel(0)} :
        SetEdgeFeature(edges, <<<<"edge_weight", Iota(get_edge_num(g))>>>>)
  \/ \E device \in Devices : To(device)
  \/ \E nodes \in ReadSelectors : GetNodeAttrs(nodes)
  \/ CopyGraph
  \/ Pack
  \/ UnpackBatch
  \/ UnpackGraph
  \/ CopyBatch

SpecFeat == Init /\ [][NextFeat]_vars

-----------------------------------------------------------------------------
(* Properties of the edge operations (checked under Spec)                  *)

ToSet(seq) == {seq[j] : j \in 1..Len(seq)}

\* The endpoint pairs of the last add_edge or add_edges call, after a single
\* endpoint has been applied to the other list; <<>> when the lengths differ
CallPairs ==
  LET ex == check_and_expand(last.src, last.tgt)
  IN  IF ex.ok THEN [j \in 1..Len(ex.x) |-> <<ex.x[j], ex.y[j]>>] ELSE <<>>

OutOfRange(gr, pair) ==
  \/ pair[1] < 0 \/ pair[1] >= get_node_num(gr)
  \/ pair[2] < 0 \/ pair[2] >= get_node_num(gr)

EdgeCall == last.op \in {"add_edge", "add_edges"}

\* C1: the edge index map and the edge list agree: the map sends a pair to e
\* exactly when the edge list holds that pair at position e.
C1_MapAgreesWithEdgeList ==
  LET edges == get_all_edges(g)
      mapping == g.nids_eid_mapping
  IN  /\ \A pair \in DOMAIN mapping :
           /\ mapping[pair] >= 0 /\ mapping[pair] < Len(edges)
           /\ edges[mapping[pair] + 1] = pair
      /\ \A e \in 1..Len(edges) :
           edges[e] \in DOMAIN mapping /\ mapping[edges[e]] = e - 1

\* C5: an add_edge or add_edges call with an endpoint outside [0, node_count)
\* raises an error and leaves the graph as it was.
C5_OutOfRangeRejected ==
  (EdgeCall /\ \E j \in 1..Len(CallPairs) : OutOfRange(last.pre, CallPairs[j]))
    => (last.err # "none" /\ g = last.pre)

\* C8 (I3): the edge index map has exactly edge_count entries, one per
\* endpoint pair of the edge list, and no pair occurs twice in the edge list.
C8_OneEntryPerPair ==
  LET edges == get_all_edges(g)
  IN  /\ Cardinality(DOMAIN g.nids_eid_mapping) = get_edge_num(g)
      /\ DOMAIN g.nids_eid_mapping = ToSet(edges)
      /\ \A a, b \in 1..Len(edges) : edges[a] = edges[b] => a = b

\* C8's case: an add_edges call was given a pair already in the graph and a
\* pair twice, and the graph holds several edges.
C8_Witness ==
  /\ last.op = "add_edges" /\ last.err = "none"
  /\ \E j \in 1..Len(CallPairs) : CallPairs[j] \in ToSet(get_all_edges(last.pre))
  /\ \E j, k \in 1..Len(CallPairs) : j < k /\ CallPairs[j] = CallPairs[k]
  /\ get_edge_num(g) > get_edge_num(last.pre)
  /\ get_edge_num(g) >= 2

\* C9: add_edge(s, t) on a pair that is already an edge raises nothing and
\* leaves the whole graph as it was (edge list, map, attributes, features).
C9_AddEdgeIdempotent ==
  (last.op = "add_edge" /\ CallPairs[1] \in ToSet(get_all_edges(last.pre)))
    => /\ last.err = "none"
       /\ g = last.pre
       /\ edge_ids(g, last.src[1], last.tgt[1]) = edge_ids(last.pre, last.src[1], last.tgt[1])

\* C9's case: add_edge was called on an existing pair of a graph that has a
\* present edge feature.
C9_Witness ==
  /\ last.op = "add_edge"
  /\ CallPairs[1] \in ToSet(get_all_edges(last.pre))
  /\ last.pre.edge_features["edge_weight"].present

\* The pairs of a list that are not in seen, each at its first occurrence
RECURSIVE FirstNew(_, _)
FirstNew(pairs, seen) ==
  IF pairs = <<>> THEN <<>>
  ELSE IF Head(pairs) \in seen THEN FirstNew(Tail(pairs), seen)
  ELSE <<Head(pairs)>> \o FirstNew(Tail(pairs), seen \cup {Head(pairs)})

\* C10: an add_edges call that returns appends, in their order in the lists,
\* the first occurrences of the pairs not yet in the graph; edge attribute
\* records and every present edge feature array grow by that number (the old
\* rows kept, the new ones zero), and absent features stay absent.
C10_AddEdgesFirstOccurrence ==
  (last.op = "add_edges" /\ last.err = "none")
    => LET new == FirstNew(CallPairs, ToSet(get_all_edges(last.pre)))
       IN  /\ get_all_edges(g) = get_all_edges(last.pre) \o new
           /\ get_edge_num(g) = get_edge_num(last.pre) + Len(new)
           /\ Len(g.edge_attributes) = Len(last.pre.edge_attributes) + Len(new)
           /\ DOMAIN g.edge_features = DOMAIN last.pre.edge_features
           /\ \A k \in DOMAIN g.edge_features :
                /\ g.edge_features[k].present = last.pre.edge_features[k].present
                /\ g.edge_features[k].rows
                     = last.pre.edge_features[k].rows
                         \o (IF last.pre.edge_features[k].present
                             THEN Repeat(0, Len(new)) ELSE <<>>)

\* C10's case: the lists held a pair already in the graph, a new pair twice
\* and the graph had a present edge feature.
C10_Witness ==
  /\ last.op = "add_edges" /\ last.err = "none"
  /\ \E j \in 1..Len(CallPairs) : CallPairs[j] \in ToSet(get_all_edges(last.pre))
  /\ \E j, k \in 1..Len(CallPairs) :
        j < k /\ CallPairs[j] = CallPairs[k]
        /\ CallPairs[j] \notin ToSet(get_all_edges(last.pre))
  /\ last.pre.edge_features["edge_weight"].present
  /\ get_edge_num(g) > get_edge_num(last.pre)

-----------------------------------------------------------------------------
(* Properties of to_batch and from_batch (checked under SpecBatch)         *)

\* The node and edge counts of the graphs before the i-th of the list
NodesBefore(gs, i) == SeqSum([j \in 1..(i - 1) |-> get_node_num(gs[j])])

EdgesBefore(gs, i) == SeqSum([j \in 1..(i - 1) |-> get_edge_num(gs[j])])

Packed == last.op = "to_batch" /\ last.err = "none"

\* The names of the features present (not None) in every table of the list
PresentOnAll(tables) ==
  {k \in UNION {DOMAIN tables[i] : i \in 1..Len(tables)} :
     \A i \in 1..Len(tables) : k \in DOMAIN tables[i] /\ tables[i][k].present}

\* C2: in the list from_batch returns for the batch to_batch made of graphs,
\* the i-th graph has the node count of graphs[i], its edge list in the same
\* order with the same endpoints, its node and edge attribute records, and,
\* for every feature present on all the graphs, its feature array.
C2_PackUnpackRoundTrip ==
  ret.some =>
    /\ Len(ret.val) = Len(graphs)
    /\ \A i \in 1..Len(graphs) :
         /\ get_node_num(ret.val[i]) = get_node_num(graphs[i])
         /\ get_all_edges(ret.val[i]) = get_all_edges(graphs[i])
         /\ ret.val[i].node_attributes = graphs[i].node_attributes
         /\ ret.val[i].edge_attributes = graphs[i].edge_attributes
         /\ \A k \in PresentOnAll([j \in 1..Len(graphs) |-> graphs[j].node_features]) :
              /\ k \in DOMAIN ret.val[i].node_features
              /\ ret.val[i].node_features[k] = graphs[i].node_features[k]
         /\ \A k \in PresentOnAll([j \in 1..Len(graphs) |-> graphs[j].edge_features]) :
              /\ k \in DOMAIN ret.val[i].edge_features
              /\ ret.val[i].edge_features[k] = graphs[i].edge_features[k]

\* C2's case: from_batch returned two graphs, the second of which follows a
\* graph with nodes and has an edge, a node feature is present on both, and
\* a node attribute record was set.
C2_Witness ==
  /\ ret.some /\ last.op = "from_batch"
  /\ Len(graphs) = 2
  /\ get_node_num(graphs[1]) >= 1
  /\ get_edge_num(graphs[2]) >= 1
  /\ "x" \in PresentOnAll([j \in 1..Len(graphs) |-> graphs[j].node_features])
  /\ \E i \in 1..2 : \E j \in 1..get_node_num(graphs[i]) :
        graphs[i].node_attributes[j] # res_init_node_attr

\* C3: in the batch to_batch returns, the edge with id k of graphs[i] is the
\* edge with id (edge counts of the graphs before) + k, its endpoints raised
\* by the node counts of the graphs before, and the batch has as many edges
\* as the graphs together.
C3_PackOffsets ==
  Packed =>
    /\ get_edge_num(big.val) = SeqSum([i \in 1..Len(graphs) |-> get_edge_num(graphs[i])])
    /\ \A i \in 1..Len(graphs) : \A k \in 1..get_edge_num(graphs[i]) :
         LET o == NodesBefore(graphs, i)
             s == graphs[i].edge_src[k] + o
             t == graphs[i].edge_tgt[k] + o
             eid == EdgesBefore(graphs, i) + (k - 1)
         IN  /\ get_all_edges(big.val)[eid + 1] = <<s, t>>
             /\ edge_ids(big.val, s, t) = [eid |-> eid, err |-> "none"]

\* C3's case: to_batch returned the batch of two graphs, the first with
\* nodes and an edge, the second with an edge.
C3_Witness ==
  /\ Packed
  /\ Len(graphs) = 2
  /\ get_node_num(graphs[1]) >= 1
  /\ get_edge_num(graphs[1]) >= 1
  /\ get_edge_num(graphs[2]) >= 1

\* C4: the batch to_batch returns has the nodes of all the graphs, batch_size
\* len(graphs), the per-graph node and edge counts of the graphs, and a batch
\* list of length node count that never decreases and sends node n to the
\* graph i with o_i <= n < o_i + node count of graphs[i].
C4_PackDescriptor ==
  Packed =>
    LET b == big.val
    IN  /\ get_node_num(b) = SeqSum([i \in 1..Len(graphs) |-> get_node_num(graphs[i])])
        /\ b.batch_size = Some(Len(graphs))
        /\ b.batch_num_nodes.some /\ Len(b.batch_num_nodes.val) = Len(graphs)
        /\ b.batch_num_edges.some /\ Len(b.batch_num_edges.val) = Len(graphs)
        /\ \A i \in 1..Len(graphs) :
             /\ b.batch_num_nodes.val[i] = get_node_num(graphs[i])
             /\ b.batch_num_edges.val[i] = get_edge_num(graphs[i])
        /\ b.batch.some /\ Len(b.batch.val) = get_node_num(b)
        /\ \A n \in 1..(Len(b.batch.val) - 1) : b.batch.val[n] <= b.batch.val[n + 1]
        /\ \A i \in 1..Len(graphs) : \A n \in 0..(get_node_num(b) - 1) :
             (NodesBefore(graphs, i) <= n /\ n < NodesBefore(graphs, i) + get_node_num(graphs[i]))
               => b.batch.val[n + 1] = i - 1

\* C4's case: to_batch returned the batch of two graphs that both have nodes,
\* one of them several, and one of them an edge.
C4_Witness ==
  /\ Packed
  /\ Len(graphs) = 2
  /\ get_node_num(graphs[1]) >= 1 /\ get_node_num(graphs[2]) >= 1
  /\ get_node_num(big.val) >= 3
  /\ get_edge_num(big.val) >= 1

\* C6 (I4): a graph with batch information has as many nodes as its
\* per-graph node counts sum to and as many edges as its per-graph edge
\* counts sum to, also after add_nodes, add_edge and add_edges on it.
C6_BatchCountsAgree ==
  big.some =>
    /\ SeqSum(big.val.batch_num_nodes.val) = get_node_num(big.val)
    /\ SeqSum(big.val.batch_num_edges.val) = get_edge_num(big.val)

WellFormed(gr) ==
  /\ get_node_num(gr) >= 1
  /\ \A e \in 1..get_edge_num(gr) : ~OutOfRange(gr, get_all_edges(gr)[e])

\* C7: to_batch of a nonempty list of graphs (here: graphs that have nodes
\* and whose edges join their own nodes) raises nothing, and the batch has a
\* node (edge) feature, the concatenation of the graphs' arrays, exactly when
\* every graph has it; a feature only some graphs have is left out.
C7_PackFeaturePresence ==
  (last.op = "to_batch" /\ Len(graphs) > 0 /\ \A i \in 1..Len(graphs) : WellFormed(graphs[i]))
    => /\ last.err = "none"
       /\ big.some
       /\ \A k \in DOMAIN big.val.node_features :
            big.val.node_features[k].present
              <=> k \in PresentOnAll([j \in 1..Len(graphs) |-> graphs[j].node_features])
       /\ \A k \in PresentOnAll([j \in 1..Len(graphs) |-> graphs[j].node_features]) :
            /\ k \in DOMAIN big.val.node_features
            /\ big.val.node_features[k]
                 = Tensor(Concat([j \in 1..Len(graphs) |-> graphs[j].node_features[k].rows]))
       /\ \A k \in DOMAIN big.val.edge_features :
            big.val.edge_features[k].present
              <=> k \in PresentOnAll([j \in 1..Len(graphs) |-> graphs[j].edge_features])
       /\ \A k \in PresentOnAll([j \in 1..Len(graphs) |-> graphs[j].edge_features]) :
            /\ k \in DOMAIN big.val.edge_features
            /\ big.val.edge_features[k]
                 = Tensor(Concat([j \in 1..Len(graphs) |-> graphs[j].edge_features[k].rows]))

-----------------------------------------------------------------------------
(* Properties of the features, the attribute records and add_nodes         *)
(* (checked under SpecFeat)                                                *)

\* The graphs of a state: g, the graphs of the list, the copy or batch, and
\* the graphs from_batch returned
Graphs ==
  {g} \cup ToSet(graphs) \cup (IF big.some THEN {big.val} ELSE {})
      \cup (IF ret.some THEN ToSet(ret.val) ELSE {})

\* C11 (I2): in every graph of every reachable state, also after a call that
\* raised, every present node feature has as many rows as the graph has
\* nodes and every present edge feature as many rows as it has edges.
C11_FeatureAlignment ==
  \A gr \in Graphs :
     /\ \A k \in DOMAIN gr.node_features :
          gr.node_features[k].present => Len(gr.node_features[k].rows) = get_node_num(gr)
     /\ \A k \in DOMAIN gr.edge_features :
          gr.edge_features[k].present => Len(gr.edge_features[k].rows) = get_edge_num(gr)

\* C11's case: a node feature write has just raised on a graph of several
\* nodes that has a present node feature and a present edge feature.
C11_Witness ==
  /\ last.op = "set_node_features" /\ last.err # "none"
  /\ get_node_num(g) >= 2 /\ get_edge_num(g) >= 1
  /\ \E k \in DOMAIN g.node_features : g.node_features[k].present
  /\ g.edge_features["edge_weight"].present

\* C12 (I1): in every graph of every reachable state there are as many node
\* attribute records as nodes and as many edge attribute records as edges
\* (the edges counted in the edge list).
C12_AttributeAlignment ==
  \A gr \in Graphs :
     /\ Len(gr.node_attributes) = get_node_num(gr)
     /\ Len(gr.edge_attributes) = Len(gr.edge_src)
     /\ Len(gr.edge_attributes) = Len(gr.edge_tgt)

\* C12's case: GraphData(g) has returned the copy of a graph with several
\* nodes and several edges.
C12_Witness ==
  /\ last.op = "from_graphdata" /\ last.err = "none"
  /\ big.some
  /\ get_node_num(big.val) >= 2 /\ get_edge_num(big.val) >= 2

\* C13: add_nodes(k) with k > 0 raises nothing, adds k nodes, appends k
\* default attribute records after the old ones, extends every present node
\* feature by k zero rows after its old rows, leaves absent features absent,
\* and leaves the edges, the edge index map, the edge features and the edge
\* attribute records as they were.
C13_GrowthPadding ==
  (last.op = "add_nodes" /\ last.num > 0)
    => /\ last.err = "none"
       /\ get_node_num(g) = get_node_num(last.pre) + last.num
       /\ g.node_attributes = last.pre.node_attributes \o Repeat(res_init_node_attr, last.num)
       /\ DOMAIN g.node_features = DOMAIN last.pre.node_features
       /\ \A k \in DOMAIN g.node_features :
            IF last.pre.node_features[k].present
            THEN /\ g.node_features[k].present
                 /\ Len(g.node_features[k].rows) = Len(last.pre.node_features[k].rows) + last.num
                 /\ g.node_features[k].rows
                      = last.pre.node_features[k].rows \o Repeat(0, last.num)
            ELSE ~g.node_features[k].present
       /\ g.edge_src = last.pre.edge_src
       /\ g.edge_tgt = last.pre.edge_tgt
       /\ g.nids_eid_mapping = last.pre.nids_eid_mapping
       /\ g.edge_features = last.pre.edge_features
       /\ g.edge_attributes = last.pre.edge_attributes

\* C13's case: add_nodes(k), k > 0, on a graph with nodes, an edge, a
\* present node feature with a nonzero row and an absent node feature.
C13_Witness ==
  /\ last.op = "add_nodes" /\ last.num > 0
  /\ get_node_num(last.pre) >= 1 /\ get_edge_num(last.pre) >= 1
  /\ \E k \in DOMAIN last.pre.node_features :
        /\ last.pre.node_features[k].present
        /\ \E j \in 1..Len(last.pre.node_features[k].rows) :
              last.pre.node_features[k].rows[j] # 0
  /\ \E k \in DOMAIN last.pre.node_features : ~last.pre.node_features[k].present

\* C20: add_nodes(count) with count <= 0 raises an error and leaves the
\* graph as it was: node count, node attribute records, node features.
C20_AddNodesRejectsNonPositive ==
  (last.op = "add_nodes" /\ last.num <= 0)
    => /\ last.err # "none"
       /\ get_node_num(g) = get_node_num(last.pre)
       /\ g.node_attributes = last.pre.node_attributes
       /\ g.node_features = last.pre.node_features
       /\ g = last.pre

\* C20's case: add_nodes(0) on a graph with nodes and a present node feature.
C20_Witness ==
  /\ last.op = "add_nodes" /\ last.num = 0
  /\ get_node_num(last.pre) >= 1
  /\ \E k \in DOMAIN last.pre.node_features : last.pre.node_features[k].present

\* The last call wrote node features
NodeWrite == last.op = "set_node_features"

\* The nodes the last write selected, and whether they are all the nodes
SelectedNodes == Selected(last.sel, get_node_num(last.pre))

\* C14: a write of one existing (present) node feature over a selector of
\* fewer than all nodes returns when the array has as many rows as nodes are
\* selected, the selected rows being the array's and the others as before;
\* with any other number of rows it raises SizeMismatchException and leaves
\* the feature as it was.
C14_SubsetUpdate ==
  (/\ NodeWrite /\ Len(last.data) = 1
   /\ ~IsNewFeature(last.pre.node_features, last.data[1][1])
   /\ Len(SelectedNodes) < get_node_num(last.pre))
    => LET key == last.data[1][1]
           value == last.data[1][2]
           old == last.pre.node_features[key].rows
           new == g.node_features[key].rows
       IN  IF Len(value) = Len(SelectedNodes)
           THEN /\ last.err = "none"
                /\ Len(new) = Len(old)
                /\ \A p \in 1..Len(SelectedNodes) : new[SelectedNodes[p] + 1] = value[p]
                /\ \A j \in 1..Len(old) :
                     (\A p \in 1..Len(SelectedNodes) : SelectedNodes[p] # j - 1) => new[j] = old[j]
           ELSE /\ last.err = "SizeMismatchException"
                /\ g.node_features = last.pre.node_features

\* C15: a write that carries a new feature (unknown name, or None) raises
\* the ValueError of the consistency check and leaves every node feature as
\* it was when its selector is an int or a slice of fewer than all nodes,
\* whatever else the call carries; over a slice of all nodes, with arrays of
\* node-count rows, it returns and the new feature is the array given.
C15_NewFeatureCoverage ==
  (NodeWrite /\ \E i \in 1..Len(last.data) :
                   IsNewFeature(last.pre.node_features, last.data[i][1]))
    => IF last.sel.kind = "int" \/ Len(SelectedNodes) < get_node_num(last.pre)
       THEN /\ last.err = "ValueError"
            /\ g.node_features = last.pre.node_features
            /\ g = last.pre
       ELSE (\A i \in 1..Len(last.data) : Len(last.data[i][2]) = get_node_num(last.pre))
              => /\ last.err = "none"
                 /\ \A i \in 1..Len(last.data) :
                      IsNewFeature(last.pre.node_features, last.data[i][1])
                        => /\ last.data[i][1] \in DOMAIN g.node_features
                           /\ g.node_features[last.data[i][1]] = Tensor(last.data[i][2])

\* C15's case: one call carried an update of a present feature and a new
\* feature over a slice of fewer than all nodes, with arrays of node-count
\* rows.
C15_Witness ==
  /\ NodeWrite /\ Len(last.data) = 2
  /\ last.sel = Slice(0, 1) /\ get_node_num(last.pre) = 2
  /\ ~IsNewFeature(last.pre.node_features, last.data[1][1])
  /\ IsNewFeature(last.pre.node_features, last.data[2][1])
  /\ Len(last.data[2][2]) = 2
  /\ last.err = "ValueError"

-----------------------------------------------------------------------------
(* Properties of copy construction and of from_batch on a graph that is no *)
(* batch (checked under SpecFeat)                                          *)

\* C18: GraphData(src) raises nothing for any source graph, also one
\* without nodes or without edges; the copy has the source's node count, its
\* edge list in the same order with the same ids, its attribute records,
\* its features by name, and its batch information exactly when the source
\* is a batch; the source is as before.
C18_CopyConstruction ==
  last.op = "from_graphdata"
    => /\ last.err = "none"
       /\ big.some
       /\ get_node_num(big.val) = get_node_num(last.pre)
       /\ get_all_edges(big.val) = get_all_edges(last.pre)
       /\ \A e \in 1..get_edge_num(last.pre) :
            edge_ids(big.val, last.pre.edge_src[e], last.pre.edge_tgt[e])
              = edge_ids(last.pre, last.pre.edge_src[e], last.pre.edge_tgt[e])
       /\ big.val.node_attributes = last.pre.node_attributes
       /\ big.val.edge_attributes = last.pre.edge_attributes
       /\ \A k \in DOMAIN last.pre.node_features :
            k \in DOMAIN big.val.node_features
              /\ big.val.node_features[k] = last.pre.node_features[k]
       /\ \A k \in DOMAIN last.pre.edge_features :
            k \in DOMAIN big.val.edge_features
              /\ big.val.edge_features[k] = last.pre.edge_features[k]
       /\ big.val.is_batch = last.pre.is_batch
       /\ big.val.batch = last.pre.batch
       /\ big.val.batch_size = last.pre.batch_size
       /\ big.val.batch_num_nodes = last.pre.batch_num_nodes
       /\ big.val.batch_num_edges = last.pre.batch_num_edges
       /\ (~last.pre.is_batch => g = last.pre)

\* C19: from_batch on a graph without batch information raises an error,
\* returns no graphs and leaves the graph as it was.
C19_UnpackNeedsBatch ==
  (last.op = "from_batch" /\ ~last.pre.is_batch /\ ~last.pre.batch_size.some)
    => /\ last.err # "none"
       /\ ~ret.some
       /\ g = last.pre

\* C19's case: from_batch was called on a graph that is no batch and has
\* nodes, an edge and a present node feature.
C19_Witness ==
  /\ last.op = "from_batch" /\ ~last.pre.is_batch
  /\ get_node_num(last.pre) >= 2 /\ get_edge_num(last.pre) >= 1
  /\ \E k \in DOMAIN last.pre.node_features : last.pre.node_features[k].present

-----------------------------------------------------------------------------
(* Properties of from_batch and of the arguments of to_batch and           *)
(* from_batch (checked under SpecBatch)                                    *)

\* C16: from_batch on the batch to_batch made of graphs that all have nodes
\* (and any number of edges) raises nothing and returns batch_size graphs,
\* the i-th with batch_num_nodes[i] nodes (those of graphs[i]) and
\* batch_num_edges[i] edges, none of them with batch information.
C16_UnpackShape ==
  (/\ last.op = "from_batch" /\ Extra(last.pre) = 0
   /\ \A i \in 1..Len(graphs) : get_node_num(graphs[i]) >= 1)
    => /\ last.err = "none"
       /\ ret.some
       /\ Len(ret.val) = last.pre.batch_size.val
       /\ Len(ret.val) = Len(graphs)
       /\ \A i \in 1..Len(ret.val) :
            /\ get_node_num(ret.val[i]) = last.pre.batch_num_nodes.val[i]
            /\ get_edge_num(ret.val[i]) = last.pre.batch_num_edges.val[i]
            /\ get_node_num(ret.val[i]) = get_node_num(graphs[i])
            /\ get_edge_num(ret.val[i]) = get_edge_num(graphs[i])
            /\ ~ret.val[i].is_batch
            /\ ~ret.val[i].batch.some
            /\ ~ret.val[i].batch_size.some
            /\ ~ret.val[i].batch_num_nodes.some
            /\ ~ret.val[i].batch_num_edges.some

\* C16's case: from_batch was called on the batch to_batch made of two
\* graphs with nodes, one without edges and one with an edge.
C16_Witness ==
  /\ last.op = "from_batch" /\ Extra(last.pre) = 0
  /\ Len(graphs) = 2
  /\ \A i \in 1..2 : get_node_num(graphs[i]) >= 1
  /\ \E i \in 1..2 : get_edge_num(graphs[i]) = 0
  /\ \E i \in 1..2 : get_edge_num(graphs[i]) >= 1

C21_PackRejectsEmptyList ==
  (last.op = "to_batch" /\ Len(graphs) = 0)
    => /\ last.err # "none"
       /\ ~big.some

\* C21's case: to_batch was called on the empty list.
C21_Witness == last.op = "to_batch" /\ graphs = <<>> /\ last.err = "AssertionError"

\* C25: every per-graph node count of the batch information of a batch
\* to_batch returns is positive.
C25_PositiveNodeCounts ==
  Packed =>
    /\ big.val.batch_num_nodes.some
    /\ \A i \in 1..Len(big.val.batch_num_nodes.val) : big.val.batch_num_nodes.val[i] > 0

-----------------------------------------------------------------------------
(* add_edges against repeated add_edge, and append-only growth             *)

\* C23: add_edges(src, tgt) on two lists of equal length ends in the state
\* add_edge(src[i], tgt[i]) for i = 0, 1, ... in order ends in: the same edge
\* list, the same edge index map and as many edge attribute records.
C23_AddEdgesAsRepeatedAddEdge ==
  (last.op = "add_edges" /\ Len(last.src) = Len(last.tgt))
    => \A r \in {AddEdgeEach(last.pre, last.src, last.tgt)} :
          /\ last.err = r.err
          /\ get_all_edges(g) = get_all_edges(r.g)
          /\ g.nids_eid_mapping = r.g.nids_eid_mapping
          /\ Len(g.edge_attributes) = Len(r.g.edge_attributes)

\* C24: no step makes g lose a node or an edge; the edge list before the
\* step is a prefix of the edge list after it, and every pair the edge index
\* map held keeps the id edge_ids gave for it.
C24_AppendOnly ==
  [][/\ get_node_num(g') >= get_node_num(g)
     /\ get_edge_num(g') >= get_edge_num(g)
     /\ SubSeq(get_all_edges(g'), 1, get_edge_num(g)) = get_all_edges(g)
     /\ \A pair \in DOMAIN g.nids_eid_mapping :
          edge_ids(g', pair[1], pair[2]) = edge_ids(g, pair[1], pair[2])]_vars

\* C24's case: add_edges, given a pair of the graph and a new pair, has
\* added an edge to a graph that had one.
C24_Witness ==
  /\ last.op = "add_edges" /\ last.err = "none"
  /\ get_edge_num(last.pre) >= 1
  /\ get_edge_num(g) = get_edge_num(last.pre) + 1
  /\ \E j \in 1..Len(CallPairs) : CallPairs[j] \in DOMAIN last.pre.nids_eid_mapping

\* C22: get_node_attrs raises an error whenever its selector exceeds the
\* node count, an int that is at least the node count as well as a slice
\* whose stop is past it; a slice never yields fewer records than it spans.
C22_ReadPastEndRejected ==
  last.op = "get_node_attrs"
    => /\ (last.sel.kind = "int" /\ last.sel.start >= get_node_num(last.pre))
            => last.err # "none"
       /\ (last.sel.kind = "slice" /\ ~last.sel.none /\ last.sel.stop > get_node_num(last.pre))
            => last.err # "none"
       /\ (last.sel.kind = "slice" /\ ~last.sel.none /\ last.err = "none")
            => Len(last.data) >= last.sel.stop - last.sel.start

-----------------------------------------------------------------------------
(* The padded views of a batch (checked under SpecBatch)                   *)

\* C26: reading the padded view of a present node feature of a batch and
\* writing it back through the view leaves the feature's rows as they were;
\* likewise for a present edge feature.
C26_PaddedViewRoundTrip ==
  /\ (last.op = "batch_node_features"
        /\ ~IsNewFeature(last.pre.node_features, last.data[1][1]))
       => /\ last.data[1][1] \in DOMAIN big.val.node_features
          /\ big.val.node_features[last.data[1][1]]
               = last.pre.node_features[last.data[1][1]]
  /\ (last.op = "batch_edge_features"
        /\ ~IsNewFeature(last.pre.edge_features, last.data[1][1]))
       => /\ last.data[1][1] \in DOMAIN big.val.edge_features
          /\ big.val.edge_features[last.data[1][1]]
               = last.pre.edge_features[last.data[1][1]]

\* C26's case: the padded view of a node feature of a batch of two graphs
\* was read and written back, the block of one graph being padded by a zero
\* row next to rows that are not zero.
C26_Witness ==
  /\ last.op = "batch_node_features" /\ last.err = "none"
  /\ Len(last.data[1][2]) = 2
  /\ \E i \in 1..2 :
        /\ Len(last.data[1][2][i]) > last.pre.batch_num_nodes.val[i]
        /\ last.pre.batch_num_nodes.val[i] >= 1
        /\ last.data[1][2][i][1] # 0
        /\ last.data[1][2][i][Len(last.data[1][2][i])] = 0

-----------------------------------------------------------------------------
(* Attribute records by reference.  single_node_attr_factory and           *)
(* single_edge_attr_factory are dict: add_nodes and add_edge make one new  *)
(* dict per node and per edge, and a slot of an attribute list holds a     *)
(* reference to a dict.  Here the slots of the graphs hold addresses into  *)
(* heap, so that to_batch and from_batch, which assign one list's slot to  *)
(* another's, move addresses and never the dicts.                          *)

\* The values written into an attribute dict by the caller
AttrValues == {"a"}

\* The graph gr whose attribute dicts, made by add_nodes and add_edge, were
\* allocated after the first base dicts of the heap: node dicts first
Allocated(gr, base) ==
  [gr EXCEPT
     !.node_attributes = [j \in 1..Len(@) |-> base + j],
     !.edge_attributes = [j \in 1..Len(@) |-> base + get_node_num(gr) + j]]

\* g = GraphData(); g.add_nodes(n); and g.add_edge(0, 0) if edge = 1: a
\* graph is added to the list handed to to_batch, its dicts being new ones
RefNewGraph(n, edge) ==
  /\ Building
  /\ Len(graphs) < MaxBatch
  /\ \E r \in {IF edge = 0 THEN add_nodes(GraphData, n)
               ELSE add_edge(add_nodes(GraphData, n).g, 0, 0)} :
        /\ graphs' = Append(graphs, Allocated(r.g, Len(heap)))
        /\ heap' = heap \o r.g.node_attributes \o r.g.edge_attributes
  /\ UNCHANGED <<g, big, ret, last>>

\* big = to_batch(graphs)
RefToBatch ==
  /\ Building
  /\ Len(graphs) >= 1
  /\ \E r \in {to_batch(graphs)} :
        /\ big' = IF r.err = "none" THEN Some(r.g) ELSE NoGraph
        /\ last' = Call("to_batch", <<>>, <<>>, 0, FullSlice, <<>>, r.err, GraphData)
  /\ UNCHANGED <<g, graphs, ret, heap>>

\* ret = from_batch(big)
RefFromBatch ==
  /\ last.op = "to_batch" /\ big.some
  /\ \E r \in {from_batch(big.val)} :
        /\ ret' = IF r.err = "none" THEN Some(r.val) ELSE NoneList
        /\ last' = Call("from_batch", <<>>, <<>>, 0, FullSlice, <<>>, r.err, big.val)
  /\ UNCHANGED <<g, graphs, big, heap>>

\* The three holders of the records: the list handed to to_batch, the batch
\* and the list from_batch returned
Holders == {"graphs", "big", "ret"}

\* The graph of holder h that holds the records of the i-th graph
Holder(h, i) ==
  IF h = "graphs" THEN graphs[i] ELSE IF h = "big" THEN big.val ELSE ret.val[i]

\* node_attributes and edge_attributes: the list itself is returned
Attrs(gr, kind) == IF kind = "node" THEN gr.node_attributes ELSE gr.edge_attributes

\* The position (from 1) in holder h's list of record j of the i-th graph:
\* in the batch the records of graph i come after those of the graphs before
Position(h, i, kind, j) ==
  IF h # "big" THEN j
  ELSE IF kind = "node" THEN NodesBefore(graphs, i) + j ELSE EdgesBefore(graphs, i) + j

\* The slots a caller can name: record j of kind kind of the i-th graph
Slots ==
  {s \in (1..Len(graphs)) \X {"node", "edge"} \X (1..MaxNodes) :
      s[3] <= Len(Attrs(graphs[s[1]], s[2]))}

\* What the slot holds, and the dict it refers to
Slot(h, i, kind, j) == Attrs(Holder(h, i), kind)[Position(h, i, kind, j)]

Read(h, i, kind, j) == heap[Slot(h, i, kind, j)]

\* The dict d after d[key] = v for its key
KeySet(d, v) == [key \in DOMAIN d |-> v]

\* Whether graphs were packed and unpacked and their records not yet touched
Unpacked == last.op = "from_batch" /\ last.err = "none" /\ big.some /\ ret.some

\* h.node_attributes[..]['node_attr'] = v (or edge_attributes, 'edge_attr'):
\* a key of the dict the slot refers to is changed in place
SetAttrKey(h, i, kind, j, v) ==
  /\ Unpacked
  /\ <<i, kind, j>> \in Slots
  /\ heap' = [heap EXCEPT ![Slot(h, i, kind, j)] = KeySet(@, v)]
  /\ last' = Call("set_attr_key", <<i, j>>, <<>>, 0, FullSlice, <<h, kind, v>>,
                  "none", GraphData)
  /\ UNCHANGED <<g, graphs, big, ret>>

\* The graph gr after gr.node_attributes[idx] = the dict at address a
WithSlot(gr, kind, idx, a) ==
  IF kind = "node" THEN [gr EXCEPT !.node_attributes[idx] = a]
  ELSE [gr EXCEPT !.edge_attributes[idx] = a]

\* h.node_attributes[..] = {'node_attr': v} (or edge_attributes): a new dict
\* is put into the slot of one holder
AssignAttrSlot(h, i, kind, j, v) ==
  /\ Unpacked
  /\ <<i, kind, j>> \in Slots
  /\ heap' = Append(heap, KeySet(Read(h, i, kind, j), v))
  /\ \E gr \in {WithSlot(Holder(h, i), kind, Position(h, i, kind, j), Len(heap) + 1)} :
        /\ graphs' = IF h = "graphs" THEN [graphs EXCEPT ![i] = gr] ELSE graphs
        /\ big' = IF h = "big" THEN Some(gr) ELSE big
        /\ ret' = IF h = "ret" THEN Some([ret.val EXCEPT ![i] = gr]) ELSE ret
  /\ last' = Call("assign_attr_slot", <<i, j>>, <<>>, 0, FullSlice, <<h, kind, v>>,
                  "none", GraphData)
  /\ UNCHANGED g

NextRef ==
  \/ \E n \in 1..MaxNodes, edge \in 0..1 : RefNewGraph(n, edge)
  \/ RefToBatch
  \/ RefFromBatch
  \/ \E h \in Holders, s \in Slots, v \in AttrValues : SetAttrKey(h, s[1], s[2], s[3], v)
  \/ \E h \in Holders, s \in Slots, v \in AttrValues : AssignAttrSlot(h, s[1], s[2], s[3], v)

SpecRef == Init /\ [][NextRef]_vars

\* C27: to_batch and from_batch place the attribute records by reference.
\* After to_batch the batch's slot for record j of graph i refers to the
\* very dict graph i's slot j refers to, for node and for edge records, and
\* after from_batch so does slot j of the i-th returned graph; a key changed
\* in place through one of the three is read changed through all of them;
\* a new dict assigned to the slot of one of them is read there only, the
\* other two still reading the record as it was.
C27_RecordsByReference ==
  /\ (last.op \in {"to_batch", "from_batch"} /\ big.some)
       => \A s \in Slots :
             Slot("big", s[1], s[2], s[3]) = Slot("graphs", s[1], s[2], s[3])
  /\ Unpacked
       => \A s \in Slots :
             Slot("ret", s[1], s[2], s[3]) = Slot("big", s[1], s[2], s[3])
  /\ last.op = "set_attr_key"
       => \A h \in Holders :
             Read(h, last.src[1], last.data[2], last.src[2])
               = KeySet(Read(h, last.src[1], last.data[2], last.src[2]), last.data[3])
  /\ last.op = "assign_attr_slot"
       => \A h \in Holders :
             Read(h, last.src[1], last.data[2], last.src[2])
               = KeySet(Read(h, last.src[1], last.data[2], last.src[2]),
                        IF h = last.data[1] THEN last.data[3] ELSE "None")

\* C27's case: two graphs were packed and unpacked, and a key of a record
\* of the second graph, which the batch holds behind the records of the
\* first, was changed in place through the list handed to to_batch.
C27_Witness ==
  /\ last.op = "set_attr_key"
  /\ last.data[1] = "graphs"
  /\ last.src[1] = 2
  /\ Len(graphs) = 2
  /\ Position("big", 2, last.data[2], last.src[2]) > last.src[2]
  /\ Read("ret", 2, last.data[2], last.src[2]) # Read("ret", 1, "node", 1)

====
